---------------------------- MODULE Spec2Model ----------------------------
(***************************************************************************)
(* Reward / skill / control layer of agents/experiments.py.                *)
(*                                                                         *)
(* Real numbers are fixed-point integers: the value x is represented by    *)
(* x * SCALE.  Inputs are drawn from grids on which every operation of the *)
(* code ((a + 1) / 2, c * (limit - speed), ...) is exact in this           *)
(* representation.  The quotient r / v of the normalizing rewards is kept  *)
(* as an exact fraction [num, den].                                        *)
(***************************************************************************)
EXTENDS Integers, Sequences, FiniteSets, TLC

VARIABLES variant, input, op, ret, control, collision_penalty, should_terminate,
          time_horizon, time_index, radar_index, radar_obs, skills_obs,
          executes, max_detections, networks

\* the temporal observation state of CompleteStateExperiment; executes (calls of
\* execute since the last reset) and max_detections (largest number of radar
\* detections of one observation since the last reset) are history variables
obsvars == <<time_horizon, time_index, radar_index, radar_obs, skills_obs,
             executes, max_detections>>

vars == <<variant, input, op, ret, control, collision_penalty, should_terminate,
          obsvars, networks>>

\* fixed-point unit: 1.0 is SCALE
SCALE == 10 * 100

\* ---- bounds of the model ------------------------------------------------
\* number of grid steps between 0 and 1 (and between 0 and -1)
Grid == 4
\* cap of the accumulated collision penalty, in multiples of the default penalty
MaxPenalties == 2
\* largest vehicle speed drawn (km/h)
MaxSpeed == 32
\* largest time_horizon a CompleteStateExperiment is built with
MaxHorizon == 2
\* calls of execute between two resets
MaxExecutes == 4
\* sub-networks handed to Networks.complex, and its layers argument
MaxNetworks == 2

\* ---- arithmetic helpers --------------------------------------------------
Max(a, b) == IF a >= b THEN a ELSE b
Min(a, b) == IF a <= b THEN a ELSE b
Abs(a) == IF a >= 0 THEN a ELSE -a

\* Python int(x): truncation toward zero
PyInt(x) == IF x >= 0 THEN x \div SCALE ELSE -((-x) \div SCALE)

\* Python round(x): round half to even
PyRound(x) ==
    LET f == x \div SCALE
        r == x % SCALE
    IN  IF 2 * r < SCALE THEN f
        ELSE IF 2 * r > SCALE THEN f + 1
        ELSE IF f % 2 = 0 THEN f ELSE f + 1

\* ---- program constants ----------------------------------------------------
\* eps=0.05 of action_penalty and _skill_from_control
eps == (5 * SCALE) \div 100
\* dead-zone threshold of the baseline steer bucketing
STEER_DEADZONE == (33 * SCALE) \div 100
\* floor of the skill-aware mapper
FLOOR == SCALE \div 10
\* reward defaults
time_cost == -SCALE
c == 2
d == 2
k == 6
LOW_SPEED == 10 * SCALE
\* on_collision default
penalty == 1000 * SCALE
\* CompleteStateExperiment.__init__: default time_horizon, radar slots per time step
DEFAULT_TIME_HORIZON == 5
RADAR_SLOTS == 50

\* skill tables
RF_SKILLS ==
    [i \in 0..7 |->
        CASE i = 0 -> "idle"
          [] i = 1 -> "brake"
          [] i = 2 -> "forward"
          [] i = 3 -> "forward left"
          [] i = 4 -> "forward right"
          [] i = 5 -> "backward"
          [] i = 6 -> "backward left"
          [] i = 7 -> "backward right"]

SKILLS ==
    [i \in 0..9 |->
        CASE i = 0 -> "wait"
          [] i = 1 -> "brake"
          [] i = 2 -> "steer right"
          [] i = 3 -> "steer left"
          [] i = 4 -> "forward"
          [] i = 5 -> "forward left"
          [] i = 6 -> "forward right"
          [] i = 7 -> "backward"
          [] i = 8 -> "backward left"
          [] i = 9 -> "backward right"]

\* dict lookup: the name, or a KeyError
Lookup(table, index) ==
    IF index \in DOMAIN table
    THEN [kind |-> "value", value |-> table[index]]
    ELSE [kind |-> "KeyError"]

None == [kind |-> "None"]

\* ---- control state ---------------------------------------------------------
DefaultControl(rev) ==
    [throttle |-> 0, steer |-> 0, brake |-> 0, reverse |-> rev, hand_brake |-> FALSE]

\* ---- observation state of CompleteStateExperiment --------------------------------
\* the variants that inherit CompleteStateExperiment.__init__
CSVariants == {"CompleteStateExperiment", "PlayEnvironment3", "CARLAPretrainExperiment"}

\* radar_obs: np.zeros((50 * time_horizon, 4)); slot j is cells[j + 1], and a
\* detection (a row of 4 floats) is one nonzero number.
ZeroRadar(th) ==
    [capacity |-> RADAR_SLOTS * th, cells |-> [j \in 1..(RADAR_SLOTS * th) |-> 0]]
RadarAt(obs, j) == obs.cells[j + 1]

\* skills_obs: np.zeros((time_horizon,)); slot t is skills_obs[t + 1]
ZeroSkills(th) == [t \in 1..th |-> 0]

\* CompleteStateExperiment.__init__(time_horizon=th)
ObsInit(th) ==
    /\ time_horizon = th
    /\ time_index = 0
    /\ radar_index = 0
    /\ radar_obs = ZeroRadar(th)
    /\ skills_obs = ZeroSkills(th)
    /\ executes = 0
    /\ max_detections = 0

\* the other variants have none of these attributes
ObsAbsent ==
    /\ time_horizon = 0
    /\ time_index = 0
    /\ radar_index = 0
    /\ radar_obs = ZeroRadar(0)
    /\ skills_obs = ZeroSkills(0)
    /\ executes = 0
    /\ max_detections = 0

ObsOf(vt, th) == IF vt \in CSVariants THEN ObsInit(th) ELSE ObsAbsent

\* ---- action-to-control mappers ---------------------------------------------
\* each mapper returns the control state after the call

\* the baseline mapper with the dead zone open at +-0.33
Baseline_actions_to_control_closed(ctl, actions) ==
    LET c1 == IF actions[1] < 0
              THEN [ctl EXCEPT !.throttle = 0, !.brake = SCALE]
              ELSE [ctl EXCEPT !.throttle = SCALE, !.brake = 0]
        c2 == IF actions[2] <= -STEER_DEADZONE THEN [c1 EXCEPT !.steer = -(SCALE \div 2)]
              ELSE IF actions[2] >= STEER_DEADZONE THEN [c1 EXCEPT !.steer = SCALE \div 2]
              ELSE [c1 EXCEPT !.steer = 0]
    IN  [c2 EXCEPT !.brake = IF actions[3] < 0 THEN 0 ELSE actions[3]]

Baseline_actions_to_control(ctl, actions) ==
    LET c1 == IF actions[1] < 0
              THEN [ctl EXCEPT !.throttle = 0, !.brake = SCALE]
              ELSE [ctl EXCEPT !.throttle = SCALE, !.brake = 0]
        c2 == IF actions[2] < -STEER_DEADZONE THEN [c1 EXCEPT !.steer = -(SCALE \div 2)]
              ELSE IF actions[2] > STEER_DEADZONE THEN [c1 EXCEPT !.steer = SCALE \div 2]
              ELSE [c1 EXCEPT !.steer = 0]
    IN  [c2 EXCEPT !.brake = IF actions[3] < 0 THEN 0 ELSE actions[3]]

\* RouteFollowExperiment.get_skill_name; scaled is env_utils.scale(prev_actions[0])
RF_get_skill_name(scaled) == Lookup(RF_SKILLS, PyInt(scaled))

\* the intensity without its floor
Intensity_nofloor(a) == (a + SCALE) \div 2

\* max(0.1, (a + 1) / 2.0)
Intensity(a) == Max(FLOOR, (a + SCALE) \div 2)

\* variant of RF_control: "brake" clears the reverse flag like "idle"
RF_control_clearing(ctl, skill, actions) ==
    LET a1 == actions[2]
        a2 == actions[3]
        v == CASE skill = "brake" ->
                    [throttle |-> 0, brake |-> Intensity(a1), steer |-> a2,
                     reverse |-> FALSE]
               [] skill = "forward" ->
                    [throttle |-> Intensity(a1), brake |-> 0, steer |-> 0,
                     reverse |-> FALSE]
               [] skill = "forward right" ->
                    [throttle |-> Intensity(a1), brake |-> 0,
                     steer |-> Max(FLOOR, Abs(a2)), reverse |-> FALSE]
               [] skill = "forward left" ->
                    [throttle |-> Intensity(a1), brake |-> 0,
                     steer |-> Min(-FLOOR, -Abs(a2)), reverse |-> FALSE]
               [] skill = "backward" ->
                    [throttle |-> Intensity(a1), brake |-> 0, steer |-> 0,
                     reverse |-> TRUE]
               [] skill = "backward left" ->
                    [throttle |-> Intensity(a1), brake |-> 0,
                     steer |-> Max(FLOOR, Abs(a2)), reverse |-> TRUE]
               [] skill = "backward right" ->
                    [throttle |-> Intensity(a1), brake |-> 0,
                     steer |-> Min(-FLOOR, -Abs(a2)), reverse |-> TRUE]
               [] OTHER ->
                    [throttle |-> 0, brake |-> 0, steer |-> 0, reverse |-> FALSE]
    IN  [throttle |-> v.throttle, steer |-> v.steer, brake |-> v.brake,
         reverse |-> v.reverse, hand_brake |-> FALSE]

\* body of RouteFollowExperiment.actions_to_control once the skill name is known
RF_control(ctl, skill, actions) ==
    LET a1 == actions[2]
        a2 == actions[3]
        v == CASE skill = "brake" ->
                    [throttle |-> 0, brake |-> Intensity(a1), steer |-> a2,
                     reverse |-> ctl.reverse]
               [] skill = "forward" ->
                    [throttle |-> Intensity(a1), brake |-> 0, steer |-> 0,
                     reverse |-> FALSE]
               [] skill = "forward right" ->
                    [throttle |-> Intensity(a1), brake |-> 0,
                     steer |-> Max(FLOOR, Abs(a2)), reverse |-> FALSE]
               [] skill = "forward left" ->
                    [throttle |-> Intensity(a1), brake |-> 0,
                     steer |-> Min(-FLOOR, -Abs(a2)), reverse |-> FALSE]
               [] skill = "backward" ->
                    [throttle |-> Intensity(a1), brake |-> 0, steer |-> 0,
                     reverse |-> TRUE]
               [] skill = "backward left" ->
                    [throttle |-> Intensity(a1), brake |-> 0,
                     steer |-> Max(FLOOR, Abs(a2)), reverse |-> TRUE]
               [] skill = "backward right" ->
                    [throttle |-> Intensity(a1), brake |-> 0,
                     steer |-> Min(-FLOOR, -Abs(a2)), reverse |-> TRUE]
               [] OTHER ->
                    [throttle |-> 0, brake |-> 0, steer |-> 0, reverse |-> FALSE]
    IN  [throttle |-> v.throttle, steer |-> v.steer, brake |-> v.brake,
         reverse |-> v.reverse, hand_brake |-> FALSE]

AP_actions_to_control(ctl, actions) ==
    [ctl EXCEPT !.throttle = IF actions[2] > 0 THEN actions[2] ELSE 0,
                !.brake = IF actions[2] < 0 THEN -actions[2] ELSE 0,
                !.steer = actions[3],
                !.reverse = (actions[4] > 0)]

\* variant of CompleteStateExperiment.actions_to_control: brake follows |a|
CS_actions_to_control_both(ctl, actions) ==
    [throttle |-> IF actions[1] > 0 THEN actions[1] ELSE 0,
     brake |-> Abs(actions[1]),
     steer |-> actions[2],
     reverse |-> (actions[3] > 0),
     hand_brake |-> FALSE]

\* actions is actions['control']
CS_actions_to_control(ctl, actions) ==
    [throttle |-> IF actions[1] > 0 THEN actions[1] ELSE 0,
     brake |-> IF actions[1] < 0 THEN -actions[1] ELSE 0,
     steer |-> actions[2],
     reverse |-> (actions[3] > 0),
     hand_brake |-> FALSE]

Play_actions_to_control(ctl, actions) ==
    [throttle |-> actions[1],
     steer |-> actions[2],
     brake |-> actions[3],
     reverse |-> (actions[4] # 0),
     hand_brake |-> (actions[5] # 0)]


\* ---- skills -------------------------------------------------------------------
\* CompleteStateExperiment.get_skill_name; skill is prev_actions['skill'][0]
CS_get_skill_name(skill) == Lookup(SKILLS, PyRound(skill))

B2N(b) == IF b THEN 1 ELSE 0

\* the counter with "brake" handled by the branch of the steer-only skills
AP_count_grouped(skill, a0, steer, a2) ==
    LET throttle == Max(a0, 0)
        reverse == a2 > 0
    IN  CASE skill = 0 -> B2N(throttle > eps)
          [] skill \in {1, 2, 3} ->
                B2N(-eps <= steer /\ steer <= eps) + B2N(throttle > eps)
          [] skill \in {4, 5, 6} ->
                B2N(reverse) + B2N(throttle < eps)
                + (IF skill = 4 THEN B2N(~(-eps <= steer /\ steer <= eps))
                   ELSE IF skill = 5 THEN B2N(steer > -eps)
                   ELSE B2N(steer < eps))
          [] skill \in {7, 8, 9} ->
                B2N(~reverse) + B2N(throttle < eps)
                + (IF skill = 7 THEN B2N(~(-eps <= steer /\ steer <= eps))
                   ELSE IF skill = 8 THEN B2N(steer > -eps)
                   ELSE B2N(steer < eps))
          [] OTHER -> 0

\* the counter of CompleteStateExperiment.action_penalty before the return
AP_count(skill, a0, steer, a2) ==
    LET throttle == Max(a0, 0)
        reverse == a2 > 0
    IN  CASE skill = 0 -> B2N(throttle > eps)
          [] skill = 1 -> B2N(throttle > eps)
          [] skill \in {2, 3} ->
                B2N(-eps <= steer /\ steer <= eps) + B2N(throttle > eps)
          [] skill \in {4, 5, 6} ->
                B2N(reverse) + B2N(throttle < eps)
                + (IF skill = 4 THEN B2N(~(-eps <= steer /\ steer <= eps))
                   ELSE IF skill = 5 THEN B2N(steer > -eps)
                   ELSE B2N(steer < eps))
          [] skill \in {7, 8, 9} ->
                B2N(~reverse) + B2N(throttle < eps)
                + (IF skill = 7 THEN B2N(~(-eps <= steer /\ steer <= eps))
                   ELSE IF skill = 8 THEN B2N(steer > -eps)
                   ELSE B2N(steer < eps))
          [] OTHER -> 0

\* the mismatch counter returned as it is
action_penalty_count(actions) ==
    AP_count(PyRound(actions.skill), actions.control[1], actions.control[2],
             actions.control[3])

\* CompleteStateExperiment.action_penalty(actions); actions = [control, skill]
action_penalty(actions) ==
    LET skill == PyRound(actions.skill)
        num_actions == Len(actions.control)
    IN  num_actions - AP_count(skill, actions.control[1], actions.control[2],
                               actions.control[3])

\* CARLAPretrainExperiment.action_penalty: the value, or the failed assertion
Pretrain_action_penalty(actions) ==
    LET ap == action_penalty(actions)
    IN  IF ap = Len(actions.control)
        THEN [kind |-> "value", value |-> ap]
        ELSE [kind |-> "AssertionError"]

\* the classifier with a strict brake threshold
skill_index_strict(ctl) ==
    LET t == ctl.throttle
        s == ctl.steer
        b == ctl.brake
        r == ctl.reverse
    IN  IF r /\ t > eps /\ b < eps
        THEN (IF s > eps THEN 9 ELSE IF s < -eps THEN 8 ELSE 7)
        ELSE IF ~r /\ t > eps /\ b < eps
        THEN (IF s > eps THEN 6 ELSE IF s < -eps THEN 5 ELSE 4)
        ELSE IF t <= eps /\ b <= eps
        THEN (IF s > eps THEN 2 ELSE IF s < -eps THEN 3 ELSE 0)
        ELSE IF b > eps THEN 1
        ELSE 0

\* the classifier with the steer-only indices in the order of the other families
skill_index_swapped(ctl) ==
    LET t == ctl.throttle
        s == ctl.steer
        b == ctl.brake
        r == ctl.reverse
    IN  IF r /\ t > eps /\ b <= eps
        THEN (IF s > eps THEN 9 ELSE IF s < -eps THEN 8 ELSE 7)
        ELSE IF ~r /\ t > eps /\ b <= eps
        THEN (IF s > eps THEN 6 ELSE IF s < -eps THEN 5 ELSE 4)
        ELSE IF t <= eps /\ b <= eps
        THEN (IF s > eps THEN 3 ELSE IF s < -eps THEN 2 ELSE 0)
        ELSE IF b > eps THEN 1
        ELSE 0

\* CARLAPretrainExperiment._skill_from_control: the skill index
skill_index(ctl) ==
    LET t == ctl.throttle
        s == ctl.steer
        b == ctl.brake
        r == ctl.reverse
    IN  IF r /\ t > eps /\ b <= eps
        THEN (IF s > eps THEN 9 ELSE IF s < -eps THEN 8 ELSE 7)
        ELSE IF ~r /\ t > eps /\ b <= eps
        THEN (IF s > eps THEN 6 ELSE IF s < -eps THEN 5 ELSE 4)
        ELSE IF t <= eps /\ b <= eps
        THEN (IF s > eps THEN 2 ELSE IF s < -eps THEN 3 ELSE 0)
        ELSE IF b > eps THEN 1
        ELSE 0

\* CARLAPretrainExperiment._skill_from_control: (skill, self.SKILLS[skill])
skill_from_control(ctl) ==
    LET skill == skill_index(ctl)
        name == Lookup(SKILLS, skill)
    IN  IF name.kind = "value"
        THEN [kind |-> "value", skill |-> skill, name |-> name.value]
        ELSE name

\* ---- rewards --------------------------------------------------------------------
\* the speed term with the low-speed test turned into >=
speed_penalty_ge(speed, speed_limit) ==
    IF speed <= speed_limit
    THEN (IF speed >= LOW_SPEED THEN 0 ELSE -SCALE)
    ELSE c * (speed_limit - speed)

\* speed-limit compliance term of BaselineExperiment.reward and
\* CARLAPretrainExperiment.reward
speed_penalty(speed, speed_limit) ==
    IF speed <= speed_limit
    THEN (IF speed > LOW_SPEED THEN 0 ELSE -SCALE)
    ELSE c * (speed_limit - speed)

\* BaselineExperiment.reward; env holds the values read from the vehicle and
\* the route, cp is self.collision_penalty
\* variant of BaselineExperiment.reward: the route counts as exceeded at equality
Baseline_reward_at(env, cp) ==
    LET dir0 == IF env.similarity > 0
                THEN ((env.speed + SCALE) * env.similarity) \div SCALE
                ELSE (((env.speed + SCALE) * env.similarity) \div SCALE) * d
        over == env.travelled_distance >= env.route_size
        efficiency_term ==
            IF ~over THEN 0
            ELSE -(env.travelled_distance - env.route_size)
                 - env.distance_to_destination
        direction_penalty == IF over /\ dir0 > 0 THEN 0 ELSE dir0
        sp == speed_penalty(env.speed, env.speed_limit)
    IN  [kind |-> "value",
         efficiency_term |-> efficiency_term,
         direction_penalty |-> direction_penalty,
         speed_penalty |-> sp,
         value |-> time_cost - cp + efficiency_term + direction_penalty + sp]

Baseline_reward(env, cp) ==
    LET dir0 == IF env.similarity > 0
                THEN ((env.speed + SCALE) * env.similarity) \div SCALE
                ELSE (((env.speed + SCALE) * env.similarity) \div SCALE) * d
        over == env.travelled_distance > env.route_size
        efficiency_term ==
            IF ~over THEN 0
            ELSE -(env.travelled_distance - env.route_size)
                 - env.distance_to_destination
        direction_penalty == IF over /\ dir0 > 0 THEN 0 ELSE dir0
        sp == speed_penalty(env.speed, env.speed_limit)
    IN  [kind |-> "value",
         efficiency_term |-> efficiency_term,
         direction_penalty |-> direction_penalty,
         speed_penalty |-> sp,
         value |-> time_cost - cp + efficiency_term + direction_penalty + sp]

\* the normalization with min in place of max
Normalize_min(r, v) == [num |-> Min(r, -k * v), den |-> v]

\* r = max(r, -k * v); r / v   as the exact fraction num / den
Normalize(r, v) == [num |-> Max(r, -k * v), den |-> v]

\* (r / v) + ap   as an exact fraction; ap is a plain number
AddPenalty(norm, ap) == [num |-> norm.num + ap * norm.den, den |-> norm.den]

\* CompleteStateExperiment.reward; env.r is the value of super().reward(actions)
CS_reward(env, actions) ==
    LET v == Max(env.speed, SCALE)
        norm == Normalize(env.r, v)
    IN  [kind |-> "value", r |-> env.r, v |-> v, norm |-> norm,
         ap |-> action_penalty(actions),
         value |-> AddPenalty(norm, action_penalty(actions))]

\* CARLAPretrainExperiment.reward
Pretrain_reward(env, cp, actions) ==
    LET speed == env.speed
        direction_penalty == speed + SCALE
        sp == speed_penalty(speed, env.speed_limit)
        r == time_cost - cp + direction_penalty + sp
        v == Max(speed, SCALE)
        norm == Normalize(r, v)
        ap == Pretrain_action_penalty(actions)
    IN  IF ap.kind = "value"
        THEN [kind |-> "value", r |-> r, v |-> v, norm |-> norm,
              speed_penalty |-> sp, ap |-> ap.value,
              value |-> AddPenalty(norm, ap.value)]
        ELSE ap

\* ---- collisions ------------------------------------------------------------------
\* the handler subtracting in its last branch
collision_amount_minus(actor_type) ==
    IF actor_type = "pedestrian" THEN penalty
    ELSE IF actor_type = "vehicle" THEN penalty \div 2
    ELSE -(penalty \div 10)

\* RadarSegmentationExperiment.on_collision: the amount added for an actor type
collision_amount(actor_type) ==
    IF actor_type = "pedestrian" THEN penalty
    ELSE IF actor_type = "vehicle" THEN penalty \div 2
    ELSE penalty \div 10

collision_terminates(actor_type) == actor_type \in {"pedestrian", "vehicle"}


\* variant of control_to_actions: throttle is taken only above eps
control_to_actions_eps(ctl) ==
    LET sk == skill_from_control(ctl)
        reverse == SCALE * B2N(ctl.reverse)
    IN  IF sk.kind # "value" THEN sk
        ELSE [kind |-> "value", name |-> sk.name,
              actions |-> [control |-> IF ctl.throttle > eps
                                       THEN <<ctl.throttle, ctl.steer, reverse>>
                                       ELSE <<-ctl.brake, ctl.steer, reverse>>,
                           skill |-> SCALE * sk.skill]]

\* CARLAPretrainExperiment.control_to_actions; the bool reverse counts as 1 or 0
control_to_actions(ctl) ==
    LET sk == skill_from_control(ctl)
        reverse == SCALE * B2N(ctl.reverse)
    IN  IF sk.kind # "value" THEN sk
        ELSE [kind |-> "value", name |-> sk.name,
              actions |-> [control |-> IF ctl.throttle > 0
                                       THEN <<ctl.throttle, ctl.steer, reverse>>
                                       ELSE <<-ctl.brake, ctl.steer, reverse>>,
                           skill |-> SCALE * sk.skill]]

\* ---- observation buffers of CompleteStateExperiment --------------------------------
\* variant of next_time_index: the index is not wrapped
next_time_index_unwrapped(t, th) == t + 1

\* execute: the slot of the temporal axis the next observation is written to
next_time_index(t, th) == (t + 1) % th

\* variant of radar_slot: one slot further
radar_slot_shifted(ri, i, capacity) == (ri + i + 1) % capacity

\* the slot of the radar buffer detection number i (from 0) is written to
radar_slot(ri, i, capacity) == (ri + i) % capacity

\* numpy takes an index in -size..size-1
ValidIndex(t, size) == -size <= t /\ t < size

\* the loop over enumerate(radar): every detection is stored at its slot in turn,
\* so a slot written more than once keeps the detection stored there last
write_radar(obs, radar, ri) ==
    LET numbers == 0..(Len(radar) - 1)
        written == {radar_slot(ri, i, obs.capacity) : i \in numbers}
        stored(j) == {i \in numbers : radar_slot(ri, i, obs.capacity) = j}
        last(S) == CHOOSE i \in S : \A i2 \in S : i2 <= i
    IN  [obs EXCEPT !.cells =
            [j \in DOMAIN obs.cells |->
                IF (j - 1) \in written THEN radar[last(stored(j - 1)) + 1]
                ELSE obs.cells[j]]]

\* ---- specification builders (agents/specifications.py) ----------------------------
\* a dict layer and a Python list; arg is the layer's tensor, tensors or size
Layer(type, arg) == [kind |-> "dict", type |-> type, arg |-> arg]
List(items) == [kind |-> "list", items |-> items]

RECURSIVE Repeat(_, _)
Repeat(items, n) == IF n <= 0 THEN <<>> ELSE items \o Repeat(items, n - 1)

\* Networks.dense(inputs, output, units, layers, normalization): a new list
Networks_dense(inputs, output, units, layers, normalization) ==
    LET head == IF inputs.kind = "list" /\ Len(inputs.items) > 0
                THEN <<Layer("retrieve", inputs.items)>>
                ELSE IF inputs.kind = "str"
                THEN <<Layer("retrieve", <<inputs.value>>)>>
                ELSE <<>>
        norm == IF normalization = "instance"
                THEN <<Layer("instance_normalization", 0)>>
                ELSE IF normalization \in {"exponential", "exp"}
                THEN <<Layer("exponential_normalization", 0)>>
                ELSE <<>>
        tail == IF output.kind = "str" THEN <<Layer("register", output.value)>> ELSE <<>>
    IN  List(head \o Repeat(<<Layer("dense", units)>> \o norm, layers) \o tail)

\* the loop of Networks.complex over the elements of networks: the outputs, or
\* the exception of the first element that has no register layer at its end
RECURSIVE complex_outputs(_, _, _)
complex_outputs(nets, i, outputs) ==
    IF i > Len(nets) THEN [kind |-> "value", value |-> outputs]
    ELSE LET net == nets[i]
         IN  IF net.kind = "dict" THEN [kind |-> "KeyError"]
             ELSE IF Len(net.items) = 0 THEN [kind |-> "IndexError"]
             ELSE IF net.items[Len(net.items)].type # "register"
             THEN [kind |-> "AssertionError"]
             ELSE complex_outputs(nets, i + 1,
                                  Append(outputs, net.items[Len(net.items)].arg))

\* the list Networks.complex returns; with network = networks it is the caller's list
complex_network(nets, outputs, layers, units) ==
    nets \o <<Layer("retrieve", outputs)>> \o Repeat(<<Layer("dense", units)>>, layers)

\* ---- the experiment variants and their method resolution ------------------------
Variants ==
    {"BaselineExperiment", "RouteFollowExperiment", "ActionPenaltyExperiment",
     "RadarSegmentationExperiment", "CompleteStateExperiment",
     "CARLAPlayEnvironment", "PlayEnvironment2", "PlayEnvironment3",
     "CARLAPretrainExperiment"}

\* the class whose actions_to_control a variant runs
MapperOf(vt) ==
    CASE vt = "BaselineExperiment" -> "BaselineExperiment"
      [] vt \in {"RouteFollowExperiment", "RadarSegmentationExperiment"} ->
            "RouteFollowExperiment"
      [] vt = "ActionPenaltyExperiment" -> "ActionPenaltyExperiment"
      [] vt \in {"CompleteStateExperiment", "PlayEnvironment3",
                 "CARLAPretrainExperiment"} -> "CompleteStateExperiment"
      [] vt \in {"CARLAPlayEnvironment", "PlayEnvironment2"} ->
            "CARLAPlayEnvironment"

\* the class whose get_skill_name a variant runs
SkillNameOf(vt) ==
    CASE vt \in {"CompleteStateExperiment", "PlayEnvironment3",
                 "CARLAPretrainExperiment"} -> "CompleteStateExperiment"
      [] vt = "BaselineExperiment" -> "none"
      [] OTHER -> "RouteFollowExperiment"

\* the class whose reward a variant runs ("none": not defined by these classes)
RewardOf(vt) ==
    CASE vt = "BaselineExperiment" -> "BaselineExperiment"
      [] vt \in {"CompleteStateExperiment", "PlayEnvironment3"} ->
            "CompleteStateExperiment"
      [] vt = "CARLAPretrainExperiment" -> "CARLAPretrainExperiment"
      [] OTHER -> "none"

\* the variants whose on_collision is RadarSegmentationExperiment.on_collision
CollisionVariants == {"RadarSegmentationExperiment", "PlayEnvironment2"}

\* an uncaught exception ends the program
Errors == {"KeyError", "AssertionError", "IndexError"}
Running == ret.kind \notin Errors

\* ---- operations -------------------------------------------------------------------
\* every operation takes its inputs as the record in and leaves them in input

Enter(in, name) ==
    /\ Running
    /\ in.fn = name
    /\ input' = in
    /\ op' = name
    /\ variant' = variant

\* a call that leaves the observation state and the caller's lists alone
Call(in, name) ==
    /\ Enter(in, name)
    /\ UNCHANGED <<obsvars, networks>>

BaselineExperiment_actions_to_control(in) ==
    /\ Call(in, "BaselineExperiment.actions_to_control")
    /\ MapperOf(variant) = "BaselineExperiment"
    /\ control' = Baseline_actions_to_control(control, in.actions)
    /\ ret' = None
    /\ UNCHANGED <<collision_penalty, should_terminate>>

RouteFollowExperiment_get_skill_name(in) ==
    /\ Call(in, "RouteFollowExperiment.get_skill_name")
    /\ SkillNameOf(variant) = "RouteFollowExperiment"
    /\ ret' = RF_get_skill_name(in.scaled)
    /\ UNCHANGED <<control, collision_penalty, should_terminate>>

RouteFollowExperiment_actions_to_control(in) ==
    /\ Call(in, "RouteFollowExperiment.actions_to_control")
    /\ MapperOf(variant) = "RouteFollowExperiment"
    /\ LET skill == RF_get_skill_name(in.scaled)
       IN  IF skill.kind = "value"
           THEN /\ control' = RF_control(control, skill.value, in.actions)
                /\ ret' = None
           ELSE /\ control' = control
                /\ ret' = skill
    /\ UNCHANGED <<collision_penalty, should_terminate>>

ActionPenaltyExperiment_actions_to_control(in) ==
    /\ Call(in, "ActionPenaltyExperiment.actions_to_control")
    /\ MapperOf(variant) = "ActionPenaltyExperiment"
    /\ control' = AP_actions_to_control(control, in.actions)
    /\ ret' = None
    /\ UNCHANGED <<collision_penalty, should_terminate>>

CompleteStateExperiment_actions_to_control(in) ==
    /\ Call(in, "CompleteStateExperiment.actions_to_control")
    /\ MapperOf(variant) = "CompleteStateExperiment"
    /\ control' = CS_actions_to_control(control, in.actions.control)
    /\ ret' = None
    /\ UNCHANGED <<collision_penalty, should_terminate>>

CARLAPlayEnvironment_actions_to_control(in) ==
    /\ Call(in, "CARLAPlayEnvironment.actions_to_control")
    /\ MapperOf(variant) = "CARLAPlayEnvironment"
    /\ control' = Play_actions_to_control(control, in.actions)
    /\ ret' = None
    /\ UNCHANGED <<collision_penalty, should_terminate>>

CompleteStateExperiment_get_skill_name(in) ==
    /\ Call(in, "CompleteStateExperiment.get_skill_name")
    /\ SkillNameOf(variant) = "CompleteStateExperiment"
    /\ ret' = CS_get_skill_name(in.skill)
    /\ UNCHANGED <<control, collision_penalty, should_terminate>>

\* the static method, called directly (debug_text, CARLAPretrainExperiment)
CompleteStateExperiment_action_penalty(in) ==
    /\ Call(in, "CompleteStateExperiment.action_penalty")
    /\ SkillNameOf(variant) = "CompleteStateExperiment"
    /\ ret' = [kind |-> "value", value |-> action_penalty(in.actions)]
    /\ UNCHANGED <<control, collision_penalty, should_terminate>>

CARLAPretrainExperiment_skill_from_control(in) ==
    /\ Call(in, "CARLAPretrainExperiment._skill_from_control")
    /\ variant = "CARLAPretrainExperiment"
    /\ ret' = skill_from_control(in.control)
    /\ UNCHANGED <<control, collision_penalty, should_terminate>>

CARLAPretrainExperiment_control_to_actions(in) ==
    /\ Call(in, "CARLAPretrainExperiment.control_to_actions")
    /\ variant = "CARLAPretrainExperiment"
    /\ ret' = control_to_actions(in.control)
    /\ UNCHANGED <<control, collision_penalty, should_terminate>>

CARLAPretrainExperiment_action_penalty(in) ==
    /\ Call(in, "CARLAPretrainExperiment.action_penalty")
    /\ variant = "CARLAPretrainExperiment"
    /\ ret' = Pretrain_action_penalty(in.actions)
    /\ UNCHANGED <<control, collision_penalty, should_terminate>>

BaselineExperiment_reward(in) ==
    /\ Call(in, "BaselineExperiment.reward")
    /\ RewardOf(variant) = "BaselineExperiment"
    /\ ret' = Baseline_reward(in.env, collision_penalty)
    /\ UNCHANGED <<control, collision_penalty, should_terminate>>

CompleteStateExperiment_reward(in) ==
    /\ Call(in, "CompleteStateExperiment.reward")
    /\ RewardOf(variant) = "CompleteStateExperiment"
    /\ ret' = CS_reward(in.env, in.actions)
    /\ UNCHANGED <<control, collision_penalty, should_terminate>>

CARLAPretrainExperiment_reward(in) ==
    /\ Call(in, "CARLAPretrainExperiment.reward")
    /\ RewardOf(variant) = "CARLAPretrainExperiment"
    /\ ret' = Pretrain_reward(in.env, collision_penalty, in.actions)
    /\ UNCHANGED <<control, collision_penalty, should_terminate>>

on_collision(in) ==
    /\ Call(in, "RadarSegmentationExperiment.on_collision")
    /\ variant \in CollisionVariants
    /\ collision_penalty < MaxPenalties * penalty
    /\ collision_penalty' = collision_penalty + collision_amount(in.actor_type)
    /\ should_terminate' = collision_terminates(in.actor_type)
    /\ ret' = None
    /\ UNCHANGED control


\* Networks.dense: nothing but the returned list is written
Networks_dense_call(in) ==
    /\ Enter(in, "Networks.dense")
    /\ ret' = [kind |-> "value",
               value |-> Networks_dense(in.inputs, in.output, in.units, in.layers,
                                        in.normalization)]
    /\ UNCHANGED <<control, collision_penalty, should_terminate, obsvars, networks>>

\* Networks.complex(networks, layers, units): networks is the caller's list
Networks_complex(in) ==
    /\ Enter(in, "Networks.complex")
    /\ LET outputs == complex_outputs(networks, 1, <<>>)
       IN  IF outputs.kind = "value"
           THEN /\ networks' = complex_network(networks, outputs.value, in.layers,
                                               in.units)
                /\ ret' = [kind |-> "value", value |-> networks']
           ELSE /\ networks' = networks
                /\ ret' = outputs
    /\ UNCHANGED <<control, collision_penalty, should_terminate, obsvars>>

\* reset: indices and buffers as constructed (super().reset is not part of the source)
CompleteStateExperiment_reset(in) ==
    /\ Enter(in, "CompleteStateExperiment.reset")
    /\ variant \in CSVariants
    /\ time_index' = 0
    /\ radar_index' = 0
    /\ radar_obs' = ZeroRadar(time_horizon)
    /\ skills_obs' = ZeroSkills(time_horizon)
    /\ executes' = 0
    /\ max_detections' = 0
    /\ UNCHANGED time_horizon
    /\ ret' = None
    /\ UNCHANGED <<control, collision_penalty, should_terminate, networks>>

\* execute: after the step of the base environment the time index advances
CompleteStateExperiment_execute(in) ==
    /\ Enter(in, "CompleteStateExperiment.execute")
    /\ variant \in CSVariants
    /\ executes < MaxExecutes
    /\ time_index' = next_time_index(time_index, time_horizon)
    /\ executes' = executes + 1
    /\ ret' = None
    /\ UNCHANGED <<control, collision_penalty, should_terminate, networks,
                   time_horizon, radar_index, radar_obs, skills_obs, max_detections>>

\* _get_observation, called by the base environment with the sensors' data
CompleteStateExperiment_get_observation(in) ==
    /\ Enter(in, "CompleteStateExperiment._get_observation")
    /\ variant \in CSVariants
    /\ IF in.keys = 0
       THEN /\ ret' = [kind |-> "value", value |-> "default"]
            /\ UNCHANGED <<radar_obs, skills_obs, max_detections>>
       ELSE IF ~ValidIndex(time_index, time_horizon)
       THEN /\ ret' = [kind |-> "IndexError"]
            /\ UNCHANGED <<radar_obs, skills_obs, max_detections>>
       ELSE /\ skills_obs' =
                  [skills_obs EXCEPT ![(time_index % time_horizon) + 1] = in.prev_skill]
            /\ radar_obs' = write_radar(radar_obs, in.radar, radar_index)
            /\ max_detections' = Max(max_detections, Len(in.radar))
            /\ ret' = [kind |-> "value", value |-> "observation"]
    /\ UNCHANGED <<control, collision_penalty, should_terminate, networks,
                   time_horizon, time_index, radar_index, executes>>

\* ---- input grids --------------------------------------------------------------------
\* even grid points of [-1, 1]
GridValues == {2 * ((i * (SCALE \div 2)) \div Grid) : i \in (-Grid)..Grid}

\* points on and next to the thresholds of the code
EdgeValues ==
    {-eps - 10, -eps, -eps + 10, eps - 10, eps, eps + 10,
     -STEER_DEADZONE - 10, -STEER_DEADZONE, STEER_DEADZONE, STEER_DEADZONE + 10,
     -(8 * SCALE) \div 10, -(6 * SCALE) \div 10, FLOOR, (2 * SCALE) \div 10}

ActionValues == GridValues \cup EdgeValues
UnitValues == {x \in ActionValues : x >= 0}
SignValues == {-SCALE, 0, SCALE}

\* prev_actions['skill'][0]: the table, its neighbours and half-way points
SkillValues ==
    {i * SCALE : i \in -1..10}
    \cup {SCALE \div 2, SCALE + SCALE \div 2, 9 * SCALE + SCALE \div 2,
          -(SCALE \div 2), -(6 * SCALE) \div 10, 9 * SCALE + (4 * SCALE) \div 10}

\* env_utils.scale(prev_actions[0])
ScaledValues ==
    {i * SCALE : i \in -1..8}
    \cup {-(SCALE \div 2), 2 * SCALE + SCALE \div 2, 7 * SCALE + (9 * SCALE) \div 10}

SpeedValues == {i * SCALE : i \in 0..MaxSpeed} \cup {SCALE \div 2}
LimitValues == {0, 5 * SCALE, 10 * SCALE, 30 * SCALE, 50 * SCALE}
SimilarityValues == {-SCALE, -(SCALE \div 2), 0, SCALE \div 2, SCALE}
CpValues == {0, penalty \div 10, penalty}
RValues == {-100 * SCALE, -10 * SCALE, -7 * SCALE, -6 * SCALE, -SCALE, 0, SCALE,
            40 * SCALE}
ActorTypes == {"pedestrian", "vehicle", "other"}

\* actions of the two-headed policy used where only the penalty value matters
RewardActions ==
    [control : {<<0, 0, 0>>, <<SCALE, 0, 0>>, <<SCALE, 0, SCALE>>,
                <<-SCALE, SCALE, 0>>},
     skill : {0, 4 * SCALE, 7 * SCALE}]

RouteValues ==
    [travelled_distance : {0, 2 * SCALE, 5 * SCALE}, route_size : {2 * SCALE},
     distance_to_destination : {0, SCALE}]

BaselineEnv(speeds, limits, sims, routes) ==
    {[similarity |-> sim, speed |-> sp, speed_limit |-> lim,
      travelled_distance |-> rt.travelled_distance, route_size |-> rt.route_size,
      distance_to_destination |-> rt.distance_to_destination] :
        sim \in sims, sp \in speeds, lim \in limits, rt \in routes}

\* the inputs of each operation over the value sets given
In_BaselineA2C(vals) ==
    [fn : {"BaselineExperiment.actions_to_control"}, actions : vals \X vals \X vals]
In_RFSkillName(scaleds) ==
    [fn : {"RouteFollowExperiment.get_skill_name"}, scaled : scaleds]
In_RFA2C(scaleds, vals) ==
    [fn : {"RouteFollowExperiment.actions_to_control"}, scaled : scaleds,
     actions : {0} \X vals \X vals]
In_APA2C(vals) ==
    [fn : {"ActionPenaltyExperiment.actions_to_control"},
     actions : {0} \X vals \X vals \X SignValues]
In_CSA2C(vals, flags) ==
    [fn : {"CompleteStateExperiment.actions_to_control"},
     actions : [control : vals \X vals \X flags, skill : {0}]]
In_PlayA2C(vals) ==
    [fn : {"CARLAPlayEnvironment.actions_to_control"},
     actions : vals \X vals \X vals \X SignValues \X SignValues]
In_CSSkillName(skills) ==
    [fn : {"CompleteStateExperiment.get_skill_name"}, skill : skills]
In_ActionPenalty(vals, flags, skills) ==
    [fn : {"CompleteStateExperiment.action_penalty"},
     actions : [control : vals \X vals \X flags, skill : skills]]
In_SkillFromControl(units, steers) ==
    [fn : {"CARLAPretrainExperiment._skill_from_control"},
     control : [throttle : units, steer : steers, brake : units,
                reverse : BOOLEAN, hand_brake : {FALSE}]]
In_ControlToActions(units, steers) ==
    [fn : {"CARLAPretrainExperiment.control_to_actions"},
     control : [throttle : units, steer : steers, brake : units,
                reverse : BOOLEAN, hand_brake : {FALSE}]]
In_BaselineReward(envs) ==
    [fn : {"BaselineExperiment.reward"}, env : envs]
In_CSReward(rs, speeds) ==
    [fn : {"CompleteStateExperiment.reward"}, env : [r : rs, speed : speeds],
     actions : RewardActions]
In_PretrainReward(speeds, limits) ==
    [fn : {"CARLAPretrainExperiment.reward"},
     env : [speed : speeds, speed_limit : limits], actions : RewardActions]
In_OnCollision ==
    [fn : {"RadarSegmentationExperiment.on_collision"}, actor_type : ActorTypes]

\* arguments of the builders
PyNone == [kind |-> "None"]
Str(x) == [kind |-> "str", value |-> x]
In_Dense ==
    [fn : {"Networks.dense"},
     inputs : {PyNone, Str("vehicle_features"), List(<<>>), List(<<"image", "road">>)},
     output : {PyNone, Str("vehicle_out")},
     units : {64}, layers : 0..MaxNetworks,
     normalization : {"instance", "exp", "none"}]
In_Complex == [fn : {"Networks.complex"}, layers : 0..MaxNetworks, units : {64}]

\* the sub-networks a caller hands to Networks.complex: results of Networks.dense,
\* with and without a register layer, and the empty list
SubNetworks ==
    {Networks_dense(Str("vehicle_features"), Str("vehicle_out"), 32, 1, "instance"),
     Networks_dense(Str("road_features"), Str("road_out"), 24, 1, "none"),
     Networks_dense(PyNone, PyNone, 16, 1, "none"),
     List(<<>>)}

RECURSIVE ListsOf(_, _)
ListsOf(S, n) ==
    IF n = 0 THEN {<<>>}
    ELSE ListsOf(S, n - 1) \cup {Append(l, x) : l \in ListsOf(S, n - 1), x \in S}

\* radar data of one step: detection number i (from 1) of the step tagged tag
Detections(tag, n) == [i \in 1..n |-> tag * SCALE + i]
In_GetObservation(capacity) ==
    {[fn |-> "CompleteStateExperiment._get_observation", keys |-> 0]}
    \cup [fn : {"CompleteStateExperiment._get_observation"}, keys : {2},
          prev_skill : {4 * SCALE},
          radar : {Detections(tag, n) : tag \in {1, 2}, n \in {0, 1, 2, capacity + 1}}]

NoInput == [fn |-> "none"]

\* ---- Spec: episodes of one experiment variant -----------------------------------------
Init ==
    /\ variant \in Variants
    /\ input = NoInput
    /\ op = "init"
    /\ ret = None
    /\ control \in {DefaultControl(rev) : rev \in BOOLEAN}
    /\ collision_penalty = 0
    /\ should_terminate = FALSE
    /\ ObsOf(variant, DEFAULT_TIME_HORIZON)
    /\ networks = <<>>

\* the episodes draw from coarse grids
Signs2 == {0, SCALE}
CoarseSpeeds == {8 * SCALE, 31 * SCALE}
CoarseLimits == {5 * SCALE, 30 * SCALE}
CoarseRoutes ==
    [travelled_distance : {0, 5 * SCALE}, route_size : {2 * SCALE},
     distance_to_destination : {SCALE}]

Next ==
    \/ \E in \in In_BaselineA2C(SignValues) :
            BaselineExperiment_actions_to_control(in)
    \/ \E in \in In_RFSkillName({i * SCALE : i \in -1..8}) :
            RouteFollowExperiment_get_skill_name(in)
    \/ \E in \in In_RFA2C({i * SCALE : i \in -1..8}, {-(6 * SCALE) \div 10, FLOOR}) :
            RouteFollowExperiment_actions_to_control(in)
    \/ \E in \in In_APA2C(SignValues) :
            ActionPenaltyExperiment_actions_to_control(in)
    \/ \E in \in In_CSA2C(SignValues, SignValues) :
            CompleteStateExperiment_actions_to_control(in)
    \/ \E in \in In_PlayA2C(Signs2) :
            CARLAPlayEnvironment_actions_to_control(in)
    \/ \E in \in In_CSSkillName({0, 9 * SCALE, 10 * SCALE}) :
            CompleteStateExperiment_get_skill_name(in)
    \/ \E in \in In_ActionPenalty({SCALE}, Signs2, {0, 4 * SCALE, 7 * SCALE}) :
            CompleteStateExperiment_action_penalty(in)
    \/ \E in \in In_SkillFromControl(Signs2, SignValues) :
            CARLAPretrainExperiment_skill_from_control(in)
    \/ \E in \in In_BaselineReward(BaselineEnv(CoarseSpeeds, CoarseLimits,
                                               {-SCALE, SCALE}, CoarseRoutes)) :
            BaselineExperiment_reward(in)
    \/ \E in \in In_CSReward({-10 * SCALE, SCALE}, CoarseSpeeds) :
            CompleteStateExperiment_reward(in)
    \/ \E in \in In_PretrainReward(CoarseSpeeds, CoarseLimits) :
            CARLAPretrainExperiment_reward(in)
    \/ \E in \in In_OnCollision : on_collision(in)

Spec == Init /\ [][Next]_vars

\* ---- SpecFn: one call of one operation, on the fine grids ------------------------------
FnInput(vt, ins, ctls, cps) ==
    /\ variant = vt
    /\ input \in ins
    /\ control \in ctls
    /\ collision_penalty \in cps
    /\ ObsOf(vt, DEFAULT_TIME_HORIZON)
    /\ networks = <<>>

\* the builders take no experiment
InitBuilders ==
    /\ variant = "none"
    /\ control = DefaultControl(FALSE)
    /\ collision_penalty = 0
    /\ ObsAbsent
    /\ \/ input \in In_Dense /\ networks = <<>>
       \/ input \in In_Complex /\ networks \in ListsOf(SubNetworks, MaxNetworks)

InitFn ==
    /\ op = "init"
    /\ ret = None
    /\ should_terminate = FALSE
    /\ \/ FnInput("BaselineExperiment", In_BaselineA2C(ActionValues),
                  {DefaultControl(FALSE)}, {0})
       \/ FnInput("RouteFollowExperiment", In_RFSkillName(ScaledValues),
                  {DefaultControl(FALSE)}, {0})
       \/ FnInput("RouteFollowExperiment", In_RFA2C(ScaledValues, ActionValues),
                  {DefaultControl(rev) : rev \in BOOLEAN}, {0})
       \/ FnInput("ActionPenaltyExperiment", In_APA2C(ActionValues),
                  {DefaultControl(FALSE)}, {0})
       \/ FnInput("CompleteStateExperiment", In_CSA2C(ActionValues, GridValues),
                  {DefaultControl(FALSE)}, {0})
       \/ FnInput("CARLAPlayEnvironment", In_PlayA2C(GridValues),
                  {DefaultControl(FALSE)}, {0})
       \/ FnInput("CompleteStateExperiment", In_CSSkillName(SkillValues),
                  {DefaultControl(FALSE)}, {0})
       \/ FnInput("CompleteStateExperiment",
                  In_ActionPenalty(ActionValues, GridValues, SkillValues),
                  {DefaultControl(FALSE)}, {0})
       \/ FnInput("CARLAPretrainExperiment",
                  In_SkillFromControl(UnitValues, ActionValues),
                  {DefaultControl(FALSE)}, {0})
       \/ FnInput("BaselineExperiment",
                  In_BaselineReward(BaselineEnv(SpeedValues, LimitValues,
                                                SimilarityValues, RouteValues)),
                  {DefaultControl(FALSE)}, CpValues)
       \/ FnInput("CompleteStateExperiment", In_CSReward(RValues, SpeedValues),
                  {DefaultControl(FALSE)}, {0})
       \/ FnInput("CARLAPretrainExperiment",
                  In_PretrainReward(SpeedValues, LimitValues),
                  {DefaultControl(FALSE)}, CpValues)
       \/ FnInput("CARLAPretrainExperiment",
                  In_ControlToActions(UnitValues, ActionValues),
                  {DefaultControl(FALSE)}, {0})
       \/ InitBuilders

\* ---- the observation buffers of one experiment over resets and steps -----------
InitObs ==
    /\ variant = "CompleteStateExperiment"
    /\ input = NoInput
    /\ op = "init"
    /\ ret = None
    /\ control = DefaultControl(FALSE)
    /\ collision_penalty = 0
    /\ should_terminate = FALSE
    /\ networks = <<>>
    /\ \E th \in 1..MaxHorizon : ObsInit(th)

NextObs ==
    \/ CompleteStateExperiment_reset([fn |-> "CompleteStateExperiment.reset"])
    \/ CompleteStateExperiment_execute([fn |-> "CompleteStateExperiment.execute"])
    \/ \E in \in In_GetObservation(radar_obs.capacity) :
            CompleteStateExperiment_get_observation(in)

SpecObs == InitObs /\ [][NextObs]_vars

Once(A) == op = "init" /\ A

\* a call on the actions control_to_actions has just returned for input.control
After(name, A) == op = name /\ A
Derived(fn) == [fn |-> fn, actions |-> ret.actions, source |-> input.control]

NextFn ==
    \/ Once(BaselineExperiment_actions_to_control(input))
    \/ Once(RouteFollowExperiment_get_skill_name(input))
    \/ Once(RouteFollowExperiment_actions_to_control(input))
    \/ Once(ActionPenaltyExperiment_actions_to_control(input))
    \/ Once(CompleteStateExperiment_actions_to_control(input))
    \/ Once(CARLAPlayEnvironment_actions_to_control(input))
    \/ Once(CompleteStateExperiment_get_skill_name(input))
    \/ Once(CompleteStateExperiment_action_penalty(input))
    \/ Once(CARLAPretrainExperiment_skill_from_control(input))
    \/ Once(BaselineExperiment_reward(input))
    \/ Once(CompleteStateExperiment_reward(input))
    \/ Once(CARLAPretrainExperiment_reward(input))
    \/ Once(CARLAPretrainExperiment_control_to_actions(input))
    \/ After("CARLAPretrainExperiment.control_to_actions",
             CARLAPretrainExperiment_action_penalty(
                 Derived("CARLAPretrainExperiment.action_penalty")))
    \/ After("CARLAPretrainExperiment.control_to_actions",
             CompleteStateExperiment_actions_to_control(
                 Derived("CompleteStateExperiment.actions_to_control")))
    \/ Once(Networks_dense_call(input))
    \/ Networks_complex(input)

SpecFn == InitFn /\ [][NextFn]_vars


\* ---- properties -----------------------------------------------------------------------
MapperOps ==
    {"BaselineExperiment.actions_to_control", "RouteFollowExperiment.actions_to_control",
     "ActionPenaltyExperiment.actions_to_control",
     "CompleteStateExperiment.actions_to_control",
     "CARLAPlayEnvironment.actions_to_control"}

\* C1: after the baseline mapper, throttle and brake are never both positive and
\* exactly one of them is nonzero.
C1_BaselineExclusive ==
    op = "BaselineExperiment.actions_to_control" =>
        /\ ~(control.throttle > 0 /\ control.brake > 0)
        /\ (control.throttle # 0) # (control.brake # 0)

\* the rule table of the skills: what each skill asks of (throttle, steer, reverse)
Centered(steer) == -eps <= steer /\ steer <= eps
SkillRules(skill, throttle, steer, reverse) ==
    CASE skill \in {0, 1} -> <<throttle <= eps>>
      [] skill \in {2, 3} -> <<~Centered(steer), throttle <= eps>>
      [] skill = 4 -> <<~reverse, throttle >= eps, Centered(steer)>>
      [] skill = 5 -> <<~reverse, throttle >= eps, steer <= -eps>>
      [] skill = 6 -> <<~reverse, throttle >= eps, steer >= eps>>
      [] skill = 7 -> <<reverse, throttle >= eps, Centered(steer)>>
      [] skill = 8 -> <<reverse, throttle >= eps, steer <= -eps>>
      [] skill = 9 -> <<reverse, throttle >= eps, steer >= eps>>

\* the number of rules of the skill that the control tuple breaks
Disagreements(actions) ==
    LET ctl == actions.control
        rules == SkillRules(PyRound(actions.skill), Max(ctl[1], 0), ctl[2], ctl[3] > 0)
    IN  Cardinality({i \in DOMAIN rules : ~rules[i]})

PenaltyCase ==
    /\ op = "CompleteStateExperiment.action_penalty"
    /\ PyRound(input.actions.skill) \in DOMAIN SKILLS

\* C2 (as stated): action_penalty returns the number of control elements that
\* disagree with the skill, hence 0 when the control tuple matches the rule table.
C2_CountsDisagreements ==
    PenaltyCase =>
        /\ ret.value >= 0
        /\ ret.value = Disagreements(input.actions)
        /\ (Disagreements(input.actions) = 0 => ret.value = 0)

\* C2 (amended): action_penalty returns the number of control elements, 3, minus
\* the number that disagree with the skill: an integer of 0..3, and 3 when the
\* control tuple matches the rule table.
C2_CountsAgreements ==
    PenaltyCase =>
        /\ ret.value \in 0..3
        /\ ret.value = 3 - Disagreements(input.actions)
        /\ (Disagreements(input.actions) = 0 => ret.value = 3)

C2_Witness ==
    /\ PenaltyCase
    /\ PyRound(input.actions.skill) = 5
    /\ Disagreements(input.actions) = 0
    /\ ret.value = 3

RewardWithSpeedTerm ==
    /\ op \in {"BaselineExperiment.reward", "CARLAPretrainExperiment.reward"}
    /\ ret.kind = "value"

\* C3 (as stated): the speed-limit term is 0 when 10 < speed <= limit, -1 whenever
\* speed <= 10, and c * (limit - speed) < 0 when speed > limit.
C3_SpeedTerm ==
    RewardWithSpeedTerm =>
        LET speed == input.env.speed
            limit == input.env.speed_limit
        IN  /\ (10 * SCALE < speed /\ speed <= limit) => ret.speed_penalty = 0
            /\ speed <= 10 * SCALE => ret.speed_penalty = -SCALE
            /\ speed > limit =>
                    ret.speed_penalty = 2 * (limit - speed) /\ ret.speed_penalty < 0

\* C3 (amended): the speed-limit term is 0 when 10 < speed <= limit, -1 when
\* speed <= 10 and speed <= limit, and c * (limit - speed) < 0 when speed > limit.
C3_SpeedTermWithinLimit ==
    RewardWithSpeedTerm =>
        LET speed == input.env.speed
            limit == input.env.speed_limit
        IN  /\ (10 * SCALE < speed /\ speed <= limit) => ret.speed_penalty = 0
            /\ (speed <= 10 * SCALE /\ speed <= limit) => ret.speed_penalty = -SCALE
            /\ speed > limit =>
                    ret.speed_penalty = 2 * (limit - speed) /\ ret.speed_penalty < 0

C3_Witness ==
    /\ RewardWithSpeedTerm
    /\ input.env.speed = 8 * SCALE
    /\ input.env.speed_limit = 5 * SCALE
    /\ ret.speed_penalty = -6 * SCALE

ClassifierCase == op = "CARLAPretrainExperiment._skill_from_control"

ForwardInput ==
    /\ input.control.throttle > eps
    /\ -eps < input.control.steer /\ input.control.steer < eps
    /\ input.control.brake <= eps
    /\ ~input.control.reverse

\* C4: throttle > eps, steer strictly inside (-eps, eps), brake <= eps and no
\* reverse are classified as "forward".
C4_Forward ==
    (ClassifierCase /\ ForwardInput) => (ret.kind = "value" /\ ret.name = "forward")

C4_Witness ==
    /\ ClassifierCase
    /\ ForwardInput
    /\ input.control.brake = eps
    /\ ret.name = "forward"

\* the label the decision order gives, with idleName for the two idle outcomes
SteerSide(s) == IF s > eps THEN "right" ELSE IF s < -eps THEN "left" ELSE "straight"
DecisionLabel(ctl, idleName) ==
    LET side == SteerSide(ctl.steer)
    IN  IF ctl.reverse /\ ctl.throttle > eps /\ ~(ctl.brake > eps)
        THEN (CASE side = "straight" -> "backward"
                [] side = "left" -> "backward left"
                [] side = "right" -> "backward right")
        ELSE IF ~ctl.reverse /\ ctl.throttle > eps /\ ~(ctl.brake > eps)
        THEN (CASE side = "straight" -> "forward"
                [] side = "left" -> "forward left"
                [] side = "right" -> "forward right")
        ELSE IF ~(ctl.throttle > eps) /\ ~(ctl.brake > eps)
        THEN (CASE side = "straight" -> idleName
                [] side = "left" -> "steer left"
                [] side = "right" -> "steer right")
        ELSE IF ctl.brake > eps THEN "brake"
        ELSE idleName

SkillLabels == {SKILLS[i] : i \in DOMAIN SKILLS}

\* C5 (as stated): the classifier is total and follows the decision order, with
\* "idle" for centered steering without throttle and brake and as the fallback.
C5_DecisionOrderIdle ==
    ClassifierCase =>
        /\ ret.kind = "value"
        /\ ret.name \in SkillLabels
        /\ ret.name = DecisionLabel(input.control, "idle")

\* C5 (amended): the classifier is total and follows the decision order, the label
\* of skill 0 being "wait" where the claim says "idle".
C5_DecisionOrderWait ==
    ClassifierCase =>
        /\ ret.kind = "value"
        /\ ret.name \in SkillLabels
        /\ ret.name = DecisionLabel(input.control, "wait")

C5_Witness ==
    /\ ClassifierCase
    /\ input.control.throttle <= eps
    /\ input.control.brake <= eps
    /\ input.control.steer < -eps
    /\ ret.name = "steer left"

NormalizingReward ==
    /\ op \in {"CompleteStateExperiment.reward", "CARLAPretrainExperiment.reward"}
    /\ ret.kind = "value"

\* C6: with v = max(speed, 1) the normalized part of the reward is max(r, -k v) / v,
\* never below -k (-6 for v = 1, k = 6, r = -10), and the action penalty is added
\* to it afterwards.
C6_Normalized ==
    NormalizingReward =>
        LET r == ret.r
            num == ret.norm.num
            v == ret.norm.den
        IN  /\ v = (IF input.env.speed >= SCALE THEN input.env.speed ELSE SCALE)
            /\ num = (IF r >= -6 * v THEN r ELSE -6 * v)
            /\ num >= -6 * v
            /\ (v = SCALE /\ r = -10 * SCALE) => num = -6 * SCALE
            /\ ret.value.den = v
            /\ ret.value.num = num + ret.ap * v

C6_Witness ==
    /\ NormalizingReward
    /\ ret.r = -10 * SCALE
    /\ ret.norm = [num |-> -6 * SCALE, den |-> SCALE]
    /\ ret.ap = 3
    /\ ret.value = [num |-> -3 * SCALE, den |-> SCALE]

\* C7: after every variant's mapper, throttle and brake are in [0, 1] and steer
\* is in [-1, 1].
C7_ValidRanges ==
    (op \in MapperOps /\ ret.kind = "None") =>
        /\ 0 <= control.throttle /\ control.throttle <= SCALE
        /\ 0 <= control.brake /\ control.brake <= SCALE
        /\ -SCALE <= control.steer /\ control.steer <= SCALE

\* the skill index an operation looked up, or would have to look up
ConsumedIndex ==
    CASE op = "RouteFollowExperiment.get_skill_name" -> PyInt(input.scaled)
      [] op = "CompleteStateExperiment.get_skill_name" -> PyRound(input.skill)
      [] op = "CompleteStateExperiment.action_penalty" -> PyRound(input.actions.skill)

\* C8: get_skill_name and action_penalty fail with a lookup error on a skill index
\* outside the skill table.
C8_LookupError ==
    /\ (op = "RouteFollowExperiment.get_skill_name"
            /\ ConsumedIndex \notin DOMAIN RF_SKILLS) => ret.kind = "KeyError"
    /\ (op \in {"CompleteStateExperiment.get_skill_name",
                "CompleteStateExperiment.action_penalty"}
            /\ ConsumedIndex \notin DOMAIN SKILLS) => ret.kind = "KeyError"

\* C9: within an episode the accumulated collision penalty never decreases; a step
\* that changes it adds penalty, penalty / 2 or penalty / 10.
C9_PenaltyMonotone ==
    [][/\ collision_penalty' >= collision_penalty
       /\ collision_penalty' # collision_penalty =>
            collision_penalty' - collision_penalty
                \in {1000 * SCALE, 500 * SCALE, 100 * SCALE}]_vars

C9_Witness ==
    /\ op = "RouteFollowExperiment.actions_to_control"
    /\ collision_penalty = 1600 * SCALE

RFMapped ==
    /\ op = "RouteFollowExperiment.actions_to_control"
    /\ ret.kind = "None"

RFSkill == RF_SKILLS[PyInt(input.scaled)]

\* x = max(0.1, (a + 1) / 2)
IsIntensity(x, a) ==
    /\ 10 * x >= SCALE
    /\ 2 * x >= a + SCALE
    /\ (10 * x = SCALE \/ 2 * x = a + SCALE)

\* C10: in the skill-aware mapper, "brake" gives throttle 0, brake
\* max(0.1, (actions[1] + 1) / 2) and steer actions[2]; the forward and backward
\* skills give throttle max(0.1, (actions[1] + 1) / 2) >= 0.1 and brake 0; the left
\* and right skills give |steer| >= 0.1.
C10_SkillAwareMapper ==
    RFMapped =>
        LET a1 == input.actions[2]
            a2 == input.actions[3]
        IN  /\ RFSkill = "brake" =>
                    /\ control.throttle = 0
                    /\ IsIntensity(control.brake, a1)
                    /\ control.steer = a2
                    /\ (10 * a1 = -6 * SCALE /\ 10 * a2 = SCALE) =>
                            (10 * control.brake = 2 * SCALE /\ 10 * control.steer = SCALE)
            /\ RFSkill \in {"forward", "forward left", "forward right",
                            "backward", "backward left", "backward right"} =>
                    /\ IsIntensity(control.throttle, a1)
                    /\ 10 * control.throttle >= SCALE
                    /\ control.brake = 0
            /\ RFSkill \in {"forward left", "forward right",
                            "backward left", "backward right"} =>
                    (10 * control.steer >= SCALE \/ 10 * control.steer <= -SCALE)

C10_Witness ==
    /\ RFMapped
    /\ RFSkill = "brake"
    /\ 10 * input.actions[2] = -6 * SCALE
    /\ 10 * input.actions[3] = SCALE
    /\ control.throttle = 0
    /\ 10 * control.brake = 2 * SCALE
    /\ 10 * control.steer = SCALE

\* C11: the baseline mapper buckets actions[1] with the dead zone [-0.33, 0.33]:
\* steer is -0.5 below it, 0.5 above it and 0 inside it; [0.5, 0.2, -1] gives
\* throttle 1, brake 0 and steer 0.
C11_DeadZone ==
    op = "BaselineExperiment.actions_to_control" =>
        LET a1 == input.actions[2]
        IN  /\ 100 * a1 < -33 * SCALE => 2 * control.steer = -SCALE
            /\ 100 * a1 > 33 * SCALE => 2 * control.steer = SCALE
            /\ (-33 * SCALE <= 100 * a1 /\ 100 * a1 <= 33 * SCALE) => control.steer = 0
            /\ (10 * input.actions[1] = 5 * SCALE /\ 10 * a1 = 2 * SCALE
                    /\ input.actions[3] = -SCALE) =>
                    (control.throttle = SCALE /\ control.brake = 0 /\ control.steer = 0)

C11_Witness ==
    /\ op = "BaselineExperiment.actions_to_control"
    /\ input.actions = <<SCALE \div 2, SCALE \div 5, -SCALE>>
    /\ control.throttle = SCALE
    /\ control.brake = 0
    /\ control.steer = 0

\* the mismatches action_penalty counted: the control elements less its result
Mismatches == Len(input.actions.control) - ret.value

\* a control tuple on which nothing the skill asks for holds
WorstControl(skill, ctl) ==
    LET throttle == Max(ctl[1], 0)
        reverse == ctl[3] > 0
    IN  CASE skill \in {0, 1} -> throttle > eps
          [] skill \in {2, 3} -> throttle > eps /\ Centered(ctl[2])
          [] skill = 4 -> reverse /\ throttle < eps /\ ~Centered(ctl[2])
          [] skill = 5 -> reverse /\ throttle < eps /\ ctl[2] > -eps
          [] skill = 6 -> reverse /\ throttle < eps /\ ctl[2] < eps
          [] skill = 7 -> ~reverse /\ throttle < eps /\ ~Centered(ctl[2])
          [] skill = 8 -> ~reverse /\ throttle < eps /\ ctl[2] > -eps
          [] skill = 9 -> ~reverse /\ throttle < eps /\ ctl[2] < eps

\* with checks[skill] the number of checks of a skill: no control tuple has more
\* mismatches, and the worst control tuple has exactly as many
MaxMismatches(checks) ==
    PenaltyCase =>
        LET skill == PyRound(input.actions.skill)
        IN  /\ Mismatches \in 0..checks[skill]
            /\ WorstControl(skill, input.actions.control) => Mismatches = checks[skill]

\* C12 (as stated): 1 check for wait and brake, 2 for the steer-only skills and for
\* straight forward and backward, 3 for the diagonal skills.
C12_ChecksStraightTwo ==
    MaxMismatches([s \in 0..9 |-> IF s \in {0, 1} THEN 1
                                  ELSE IF s \in {2, 3, 4, 7} THEN 2 ELSE 3])

\* C12 (amended): 1 check for wait and brake, 2 for the steer-only skills, 3 for
\* every forward and backward skill, straight ones included.
C12_ChecksStraightThree ==
    MaxMismatches([s \in 0..9 |-> IF s \in {0, 1} THEN 1
                                  ELSE IF s \in {2, 3} THEN 2 ELSE 3])

C12_Witness ==
    /\ PenaltyCase
    /\ PyRound(input.actions.skill) = 4
    /\ input.actions.control = <<0, SCALE, SCALE>>
    /\ Mismatches = 3

BuilderOps == {"Networks.dense", "Networks.complex"}

\* C13: a call of a specification builder leaves the caller's networks list as it
\* was, and a second call with the same arguments returns what the first returned.
C13_BuildersPure ==
    [][op' \in BuilderOps =>
        /\ networks' = networks
        /\ (op = op' /\ input = input') => ret' = ret]_vars

SignMappers ==
    {"ActionPenaltyExperiment.actions_to_control",
     "CompleteStateExperiment.actions_to_control"}

\* the element whose sign selects throttle or brake, and the reverse flag element
Designated ==
    IF op = "ActionPenaltyExperiment.actions_to_control"
    THEN input.actions[2] ELSE input.actions.control[1]
FlagElement ==
    IF op = "ActionPenaltyExperiment.actions_to_control"
    THEN input.actions[4] ELSE input.actions.control[3]

\* C14: after the ActionPenalty and CompleteState mappers, throttle = a and brake = 0
\* when a > 0, throttle = 0 and brake = -a when a < 0, both 0 when a = 0; the two
\* are never both nonzero, and reverse is true exactly when the flag element is > 0.
C14_SignSelects ==
    op \in SignMappers =>
        /\ control.throttle = (IF Designated > 0 THEN Designated ELSE 0)
        /\ control.brake = (IF Designated < 0 THEN -Designated ELSE 0)
        /\ ~(control.throttle # 0 /\ control.brake # 0)
        /\ control.reverse <=> (FlagElement > 0)

C14_Witness ==
    /\ op = "CompleteStateExperiment.actions_to_control"
    /\ Designated < 0
    /\ control.brake = -Designated
    /\ control.throttle = 0
    /\ control.reverse

\* C15: in the baseline reward the efficiency term is 0 while the travelled distance
\* is at most the route size; beyond it the term is -(travelled - size) - remaining
\* distance, which is negative, and the direction term is then never positive (a
\* positive one is replaced by 0).
C15_EfficiencyTerm ==
    op = "BaselineExperiment.reward" =>
        IF input.env.travelled_distance <= input.env.route_size
        THEN ret.efficiency_term = 0
        ELSE /\ ret.efficiency_term =
                    -(input.env.travelled_distance - input.env.route_size)
                    - input.env.distance_to_destination
             /\ ret.efficiency_term < 0
             /\ ret.direction_penalty <= 0
             /\ input.env.similarity > 0 => ret.direction_penalty = 0

C15_Witness ==
    /\ op = "BaselineExperiment.reward"
    /\ input.env.travelled_distance > input.env.route_size
    /\ input.env.similarity > 0
    /\ input.env.speed > 0
    /\ ret.efficiency_term < 0
    /\ ret.direction_penalty = 0

\* C16: for actions derived from a vehicle control by control_to_actions, the
\* assertion of CARLAPretrainExperiment.action_penalty holds and the call returns 3.
C16_AssertionHolds ==
    op = "CARLAPretrainExperiment.action_penalty" =>
        ret.kind = "value" /\ ret.value = Len(input.actions.control)

\* C17: termination by collision is latched: once should_terminate is true, a
\* further collision event of any actor type leaves it true.
C17_TerminationLatched ==
    [][(should_terminate /\ op' = "RadarSegmentationExperiment.on_collision")
        => should_terminate']_vars

C19_RadarSlots ==
    variant \in CSVariants =>
        /\ radar_index = 0
        /\ \A j \in 0..(radar_obs.capacity - 1) :
                j >= max_detections => RadarAt(radar_obs, j) = 0
        /\ (op = "CompleteStateExperiment._get_observation" /\ input.keys = 2) =>
                \A i \in 0..(Len(input.radar) - 1) :
                    (i + radar_obs.capacity >= Len(input.radar)) =>
                        RadarAt(radar_obs, i % radar_obs.capacity) = input.radar[i + 1]

C19_Witness ==
    /\ op = "CompleteStateExperiment._get_observation"
    /\ input.keys = 2
    /\ Len(input.radar) = 1
    /\ max_detections > radar_obs.capacity
    /\ RadarAt(radar_obs, 0) = input.radar[1]
    /\ RadarAt(radar_obs, 1) # 0
    /\ RadarAt(radar_obs, 1) \notin {input.radar[i] : i \in DOMAIN input.radar}

\* a control with at most one pedal pressed
OnePedal(ctl) == ctl.throttle = 0 \/ ctl.brake = 0

\* C20: for a control with throttle and brake in [0, 1], at most one of them
\* nonzero, steer in [-1, 1], any reverse flag and hand_brake false, the
\* CompleteStateExperiment mapper applied to the actions of control_to_actions
\* restores throttle, brake, steer and reverse.
C20_RoundTrip ==
    (/\ op = "CompleteStateExperiment.actions_to_control"
     /\ "source" \in DOMAIN input
     /\ OnePedal(input.source)) =>
        /\ control.throttle = input.source.throttle
        /\ control.brake = input.source.brake
        /\ control.steer = input.source.steer
        /\ control.reverse = input.source.reverse

C20_Witness ==
    /\ op = "CompleteStateExperiment.actions_to_control"
    /\ "source" \in DOMAIN input
    /\ input.source.throttle = 0
    /\ input.source.brake > eps
    /\ input.source.reverse
    /\ input.source.steer < 0
    /\ control = input.source

BackwardSkills == {"backward", "backward left", "backward right"}
LeftSkills == {"forward left", "backward left"}
RightSkills == {"forward right", "backward right"}

\* C21: a step of the skill-aware mapper with skill "brake" leaves the reverse flag
\* as it was, a step with any other skill sets it to whether the skill is a
\* backward skill, and hand_brake is false after every step; so over a sequence of
\* steps reverse follows the most recent skill other than "brake".
C21_ReverseFollowsSkill ==
    [][(op' = "RouteFollowExperiment.actions_to_control" /\ ret'.kind = "None") =>
        LET skill == RF_SKILLS[PyInt(input'.scaled)]
        IN  /\ skill = "brake" => control'.reverse = control.reverse
            /\ skill # "brake" => (control'.reverse <=> skill \in BackwardSkills)
            /\ ~control'.hand_brake]_vars

C21_Witness ==
    /\ RFMapped
    /\ variant = "RouteFollowExperiment"
    /\ RFSkill = "brake"
    /\ control.brake >= FLOOR
    /\ control.reverse
    /\ ~control.hand_brake

\* C22: after the skill-aware mapper steer <= -0.1 for every skill whose name ends
\* in "left" and steer >= 0.1 for every skill whose name ends in "right", as the
\* skill classifier and the action penalty label them.
C22_SteerSign ==
    RFMapped =>
        /\ RFSkill \in LeftSkills => control.steer <= -FLOOR
        /\ RFSkill \in RightSkills => control.steer >= FLOOR

=============================================================================
